---- MODULE Spec2Model ----
(***************************************************************************)
(* State-machine model of apr_auto.py: the round orchestration loop of     *)
(* Orchestrator.run with its collaborators (round executor, truncation     *)
(* detector, CDP recovery, backfill, stability score, integration, commit) *)
(* and the files it reads and writes.  Every subprocess call is a step of  *)
(* its own (the call is in flight while pc names it), so that the signal   *)
(* handler can interleave with the loop.                                   *)
(***************************************************************************)
EXTENDS Integers, Sequences, FiniteSets, TLC

\* ---------------------------------------------------------------- constants
MAX_CONSECUTIVE_FAILURES == 3
FAILURE_BACKOFF_SECONDS == 10
MAX_TRUNCATION_RETRIES == 3
ROUND_TIMEOUT_SECONDS == 3600
MIN_OUTPUT_CHARS == 200
MIN_OUTPUT_LINES == 5

\* ------------------------------------------------------------------- bounds
\* largest --max-rounds value explored
MaxRoundsCap == 2

\* number of --max-rounds values below zero explored (the option is any integer)
NegativeCaps == 2
\* number of process runs (one start plus restarts) explored
MaxRuns == 2
\* callers of atomic_write_json on one path, calls of each, chunks of a payload
NumWriters == 2
MaxCalls == 2
PayloadChunks == 2

MaxRound == 2 + MaxRuns * MaxRoundsCap
Rounds == 1..MaxRound

\* Optional values (Python None / a value)
None == <<>>
Some(v) == <<v>>
NoReason == "none"

VARIABLES
    config,               \* Config, as parsed (commit may be downgraded)
    files,                \* rounds_dir: round number -> round_N.md
    backups,              \* rounds_dir: <<round, k>> -> round_N.truncated.K.md
    statusFile,           \* log_dir/status.json
    summaryFile,          \* log_dir/last_run.json
    pc,                   \* position of the process in Orchestrator.run
    run,                  \* ordinal of the current process run
    shutting_down,        \* Orchestrator._shutting_down
    summary,              \* Orchestrator.summary (RunSummary)
    output_sizes,         \* Orchestrator._output_sizes
    truncation_attempts,  \* Orchestrator._truncation_attempts
    consecutive_failures, \* local of run()
    round_num,            \* local of run()
    start,                \* local of run()
    end,                  \* local of run()
    loc,                  \* the per-iteration locals of run()
    invoked,              \* history: round numbers passed to run_apr_round
    exit_code,            \* process exit status (None while running)
    prev,                 \* history: how the previous run of the process ended
    fs_faulty,            \* environment: filesystem operations may fail (OSError)
    dir,                  \* log_dir seen file by file: the target path and temp files
    wpc,                  \* position of each caller inside atomic_write_json
    calls,                \* number of atomic_write_json calls each caller has made
    fn,                   \* the module-level function being called on its own
    arg,                  \* the arguments of that call
    ret                   \* None until the call returns, then Some(result)

\* the variables of atomic_write_json taken step by step
awvars == <<dir, wpc, calls>>

\* the variables of the orchestrator
mainvars == <<config, files, backups, statusFile, summaryFile, pc, run,
              shutting_down, summary, output_sizes, truncation_attempts,
              consecutive_failures, round_num, start, end, loc, invoked,
              exit_code, prev, fs_faulty>>

\* the variables of a single call of a module-level function
fnvars == <<fn, arg, ret>>

vars == <<mainvars, awvars, fnvars>>

\* ------------------------------------------------------------ artifact files
\* A text file: len(content), content.count("\n"), the shape of its tail, and
\* its st_size (the UTF-8 text has one byte per character unless said otherwise)
\* (readable: read_text succeeds)
Absent ==
    [exists |-> FALSE, chars |-> 0, lines |-> 0, tail |-> "ok", bytes |-> 0,
     readable |-> TRUE]
File(c, l, t) ==
    [exists |-> TRUE, chars |-> c, lines |-> l, tail |-> t, bytes |-> c,
     readable |-> TRUE]

Good == File(1200, 40, "ok")
Short == File(100, 2, "ok")
Empty == File(0, 0, "ok")
Huge == [File(5000, 90, "ok") EXCEPT !.bytes = 5200]
RecTrunc == File(250, 2, "ok")
\* a file whose size can be read (stat) but whose content cannot (read_text)
Locked == [Good EXCEPT !.readable = FALSE]

\* what the external tool may leave at round_N.md when it exits 0
ExecWrites == {Good, Short}
\* stdout of the recovery script when the remote command exits 0
RecoveryTexts == {Good, RecTrunc, Short}
\* responses of the ssh recovery subprocess
RecoveryResponses ==
    { [kind |-> "timeout", rc |-> 0, stdout |-> Absent],
      [kind |-> "oserror", rc |-> 0, stdout |-> Absent],
      [kind |-> "exit", rc |-> 1, stdout |-> Absent] }
    \cup { [kind |-> "exit", rc |-> 0, stdout |-> t] : t \in RecoveryTexts }
\* what read_stability_score may return in the loop (percent)
Scores == {None, Some(50), Some(75)}
\* outcomes of a read_stability_score call in the loop: a returned score, or
\* an exception out of _extract_stability_score (JSON of an unexpected shape)
ScoreOutcomes ==
    {[raised |-> FALSE, score |-> v] : v \in Scores}
       \cup {[raised |-> TRUE, score |-> None]}
\* A response of a subprocess.run call: the process exits with a return code
\* (stderr: the last line it wrote there, "" if none), the call times out, or
\* the process cannot be started (OSError)
Exited(rc, err) == [kind |-> "exit", rc |-> rc, stderr |-> err]
TimedOut == [kind |-> "timeout", rc |-> 0, stderr |-> ""]
SpawnError == [kind |-> "oserror", rc |-> 0, stderr |-> ""]
\* responses of the `apr run N --wait` subprocess explored in the loop
ExecOutcomes == {Exited(0, ""), Exited(3, ""), SpawnError}

NoFiles == [n \in Rounds |-> Absent]

\* rounds directories left by earlier runs
ResumeFiles == [n \in Rounds |-> IF n = 1 THEN Good ELSE IF n = 2 THEN Empty ELSE Absent]

InitFiles ==
    { NoFiles, ResumeFiles, [n \in Rounds |-> IF n = 1 THEN Huge ELSE Absent],
      [n \in Rounds |-> IF n = 1 THEN Locked ELSE Absent] }

NoBackups == [k \in Rounds \X (1..MAX_TRUNCATION_RETRIES) |-> Absent]

\* the archived truncated outputs found next to them: the directory that
\* stops at round 2 also holds round_3.truncated.1.md
InitBackups(fs) ==
    IF fs = ResumeFiles THEN [NoBackups EXCEPT ![<<3, 1>>] = Short] ELSE NoBackups

\* The configurations explored: a one-round base configuration, every
\* configuration that differs from it in one option, and the multi-round
\* configurations (with recovery up to two rounds, without it up to the cap).
BaseConfig ==
    [ max_rounds |-> 1, start_round |-> None, convergence_target |-> 75,
      cooldown |-> 0, dry_run |-> FALSE, integrate |-> FALSE, commit |-> FALSE,
      cdp_recovery_enabled |-> TRUE, cdp_configured |-> TRUE ]

DeepConfig == [BaseConfig EXCEPT !.max_rounds = MaxRoundsCap, !.cdp_recovery_enabled = FALSE]

OneRoundConfig ==
    [DeepConfig EXCEPT !.max_rounds = 1, !.integrate = TRUE, !.commit = TRUE]

Configs ==
    { [BaseConfig EXCEPT !.start_round = Some(1)],
      [BaseConfig EXCEPT !.convergence_target = 0],
      [BaseConfig EXCEPT !.dry_run = TRUE],
      [BaseConfig EXCEPT !.integrate = TRUE],
      [BaseConfig EXCEPT !.commit = TRUE],
      [BaseConfig EXCEPT !.cdp_configured = FALSE],
      [DeepConfig EXCEPT !.cooldown = 10],
      OneRoundConfig }
    \cup { [DeepConfig EXCEPT !.max_rounds = m] : m \in 0..MaxRoundsCap }
    \cup { [BaseConfig EXCEPT !.max_rounds = m] :
              m \in 0..(IF MaxRoundsCap < 2 THEN MaxRoundsCap ELSE 2) }

\* --max-rounds is parsed with type=int and never validated: the
\* configurations above and those with a cap below zero
AnyCapConfigs ==
    Configs \cup { [DeepConfig EXCEPT !.max_rounds = m] : m \in (0 - NegativeCaps)..(-1) }

\* Outcomes of run_integrate: True, False, or the OSError of the mkdir of its
\* fallback, which is outside the try (faulty filesystem only).
IntegrateOutcomes == IF fs_faulty THEN {"ok", "failed", "raised"} ELSE {"ok", "failed"}

\* what git_commit_and_push returns: None, an empty sha (rev-parse failed
\* after the commit), or the short sha
CommitOutcomes == {None, Some(""), Some("abc1234")}

\* outcomes of one filesystem operation: it can fail only on a faulty filesystem
FsOutcomes == IF fs_faulty THEN BOOLEAN ELSE {TRUE}

\* Outcomes of one atomic_write_json call: the file is replaced; an OSError
\* inside the try block is swallowed and the file is left as it was; an OSError
\* of path.parent.mkdir, outside the try block, is raised to the caller.
PersistOutcomes == IF fs_faulty THEN {"ok", "dropped", "raised"} ELSE {"ok"}

\* No run records more than 3 attempts per round it may execute; one more
\* than that keeps every state space finite without ever binding.
MaxResults == 3 * config.max_rounds + 1

\* ------------------------------------------------------------- pure helpers
RECURSIVE Sum(_)
Sum(s) == IF s = <<>> THEN 0 ELSE Head(s) + Sum(Tail(s))

Max(S) == CHOOSE x \in S : \A y \in S : y <= x

Last(s) == s[Len(s)]

\* File names of the rounds directory, as the tokens the pattern looks at
round_file(n) == <<"round_", n, ".md">>
truncated_file(n, k) == <<"round_", n, ".truncated.", k, ".md">>

\* the directory listing: <<name, file>> of every entry that exists
listdir(fs, bk) ==
    {<<round_file(n), fs[n]>> : n \in {m \in Rounds : fs[m].exists}}
       \cup {<<truncated_file(k[1], k[2]), bk[k]>> :
                 k \in {j \in DOMAIN bk : bk[j].exists}}

round_file_match_Prefix(name) ==
    IF Len(name) >= 2 /\ name[1] = "round_" THEN Some(name[2]) ELSE None

\* re.search(r"round_(\d+)\.md$", name): "round_", digits and ".md" at the
\* end of the name
round_file_match(name) ==
    IF /\ Len(name) >= 3
       /\ name[Len(name) - 2] = "round_"
       /\ name[Len(name)] = ".md"
    THEN Some(name[Len(name) - 1])
    ELSE None

detect_last_round(fs, bk) ==
    Max({0} \cup {round_file_match(e[1])[1] :
                     e \in {d \in listdir(fs, bk) :
                               round_file_match(d[1]) # None /\ d[2].bytes > 0}})

_seed_output_sizes(fs, up_to) ==
    LET lo == IF up_to - 4 > 1 THEN up_to - 4 ELSE 1
        ns == [i \in 1..(up_to - lo + 1) |-> lo + i - 1]
        kept == SelectSeq(ns, LAMBDA n : fs[n].exists /\ fs[n].bytes > 0)
    IN [i \in 1..Len(kept) |-> fs[kept[i]].bytes]

\* The end of a text, by the tag of its file: `last` is the final
\* whitespace-delimited token of content.rstrip(), character by character
\* (empty for a text of whitespace only), `line` the first character of its
\* last line.
\* the backtick character
BACKTICK == "BACKTICK"

Chars(last, line) == [last |-> last, line |-> line]

Ending(tag) ==
    CASE tag = "ok"       -> Chars(<<"d", "o", "n", "e", ".">>, "A")
      [] tag = "sentence" -> Chars(<<"s", "a", "m", "p", "l", "e", ".">>, "S")
      [] tag = "fence2"   -> Chars(<<BACKTICK, BACKTICK>>, BACKTICK)
      [] tag = "fence3"   -> Chars(<<BACKTICK, BACKTICK, BACKTICK>>, BACKTICK)
      [] tag = "fence4"   -> Chars(<<BACKTICK, BACKTICK, BACKTICK, BACKTICK>>, BACKTICK)
      [] tag = "xfence2"  -> Chars(<<"x", BACKTICK, BACKTICK>>, "r")
      [] tag = "tick"     -> Chars(<<BACKTICK>>, "a")
      [] tag = "novowel"  -> Chars(<<"s", "p", "c", "f", "c">>, "T")
      [] tag = "vowel"    -> Chars(<<"s", "p", "e", "c", "i", "f", "i", "c">>, "T")
      [] tag = "short3"   -> Chars(<<"c", "s", "s">>, "T")
      [] tag = "rhythm"   -> Chars(<<"r", "h", "t", "h", "m", "y">>, "T")
      [] tag = "upper"    -> Chars(<<"H", "T", "T", "P">>, "T")
      [] tag = "upperI"   -> Chars(<<"X", "M", "L", "I">>, "T")
      [] tag = "digit"    -> Chars(<<"p", "t", "r", "2">>, "T")
      [] tag = "heading"  -> Chars(<<"I", "n", "t", "r", "o">>, "#")
      [] tag = "blank"    -> Chars(<<>>, " ")

\* str.isalpha and str.lower on the characters used above
isalpha(ch) == ch \notin {BACKTICK, ".", "2", "#", " "}

lower(ch) ==
    CASE ch = "H" -> "h" [] ch = "T" -> "t" [] ch = "P" -> "p" [] ch = "X" -> "x"
      [] ch = "M" -> "m" [] ch = "L" -> "l" [] ch = "I" -> "i" [] ch = "A" -> "a"
      [] ch = "S" -> "s" [] OTHER -> ch

\* s.endswith(k backticks)
endswith_fence(s, k) ==
    Len(s) >= k /\ \A i \in (Len(s) - k + 1)..Len(s) : s[i] = BACKTICK

\* stripped ends with two backticks and not with three
incomplete_fence(last) == endswith_fence(last, 2) /\ ~endswith_fence(last, 3)

no_vowel_fragment_NoY(last) ==
    /\ Len(last) > 3
    /\ isalpha(last[Len(last)])
    /\ ~\E v \in {"a", "e", "i", "o", "u"} : \E i \in 1..Len(last) : lower(last[i]) = v

\* len(last) > 3, last[-1].isalpha(), and no character of aeiouy in last.lower()
no_vowel_fragment(last) ==
    /\ Len(last) > 3
    /\ isalpha(last[Len(last)])
    /\ ~\E c \in {"a", "e", "i", "o", "u", "y"} :
           \E i \in 1..Len(last) : lower(last[i]) = c

\* the partial-word block: skipped when the text has no token
partial_word(e, chars) ==
    /\ e.last # <<>>
    /\ \/ incomplete_fence(e.last)
       \/ no_vowel_fragment(e.last)
       \/ e.line = "#" /\ chars < 1000

below_minimum_Off(chars, lines) == FALSE

below_minimum_CharsOnly(chars, lines) == chars < MIN_OUTPUT_CHARS

\* the two absolute thresholds of check_output_truncation
below_minimum(chars, lines) ==
    chars < MIN_OUTPUT_CHARS \/ lines < MIN_OUTPUT_LINES

below_average_Fifth(chars, sizes) ==
    sizes # <<>> /\ chars > 0 /\ 10 * chars * Len(sizes) < 2 * Sum(sizes)

\* the relative-size rule: chars < avg * 0.3 with avg = sum / len
below_average(chars, sizes) ==
    sizes # <<>> /\ chars > 0 /\ 10 * chars * Len(sizes) < 3 * Sum(sizes)

check_output_truncation(f, sizes) ==
    \/ ~f.exists
    \/ ~f.readable
    \/ below_minimum(f.chars, f.lines)
    \/ partial_word(Ending(f.tail), f.chars)
    \/ below_average(f.chars, sizes)

\* ------------------------------------------------------- stability score
\* A JSON value as json.loads returns it: its Python type t, for a number (or
\* a string that float() parses) its value c in hundredths, and whether it is
\* falsy (None, 0, "", [], {}, False).  "missing" is a key that is not there:
\* dict.get returns None for it.
Json(t, c, falsy) == [t |-> t, c |-> c, falsy |-> falsy]
Missing == Json("missing", 0, TRUE)
Null == Json("null", 0, TRUE)
Num(c) == Json("num", c, c = 0)
NumStr(c) == Json("numstr", c, FALSE)
Str == Json("str", 0, FALSE)
List == Json("list", 0, FALSE)

IsNone(v) == v.t \in {"missing", "null"}

\* float(raw): the value, or TypeError / ValueError
float(raw) ==
    IF raw.t \in {"num", "numstr"} THEN [ok |-> TRUE, val |-> raw.c]
    ELSE [ok |-> FALSE, val |-> 0]

\* The object under "convergence": a dict with the three score keys, or a
\* value of another type (then the three keys are Missing).
ConvDict(a, b, c) ==
    [t |-> "dict",
     falsy |-> a.t = "missing" /\ b.t = "missing" /\ c.t = "missing",
     score |-> a, confidence |-> b, stability_score |-> c]
ConvOther(v) ==
    [t |-> v.t, falsy |-> v.falsy,
     score |-> Missing, confidence |-> Missing, stability_score |-> Missing]

\* The parsed document: a dict with the keys the code reads, or a value of
\* another type at the top level.
Data(conv, cs, ss) ==
    [t |-> "dict", convergence |-> conv, convergence_score |-> cs,
     stability_score |-> ss]
DataOther(v) ==
    [t |-> v.t, convergence |-> ConvOther(Missing), convergence_score |-> Missing,
     stability_score |-> Missing]

\* a score in hundredths of a percent, or None, or an exception
Returned(v) == [raised |-> FALSE, value |-> v]
Raised == [raised |-> TRUE, value |-> None]

\* the loop over the candidates: the first one that float() accepts and that
\* is <= 100.0 decides; a raw value <= 1.0 is scaled by 100
first_score(cands) ==
    LET ok == SelectSeq(cands, LAMBDA raw :
                  ~IsNone(raw) /\ float(raw).ok /\ float(raw).val <= 10000)
        val == float(Head(ok)).val
    IN IF ok = <<>> THEN None
       ELSE IF val <= 100 THEN Some(val * 100) ELSE Some(val)

_extract_stability_score(data) ==
    IF data.t # "dict" THEN Raised                   \* data.get: AttributeError
    ELSE LET got == data.convergence
             isdict == got.falsy \/ got.t = "dict"   \* `or {}` replaces a falsy value
             conv == IF got.falsy THEN ConvDict(Missing, Missing, Missing) ELSE got
         IN IF ~isdict THEN Raised                   \* conv.get: AttributeError
            ELSE Returned(first_score(<<conv.score, conv.confidence,
                                        conv.stability_score,
                                        data.convergence_score,
                                        data.stability_score>>))

\* Responses of `apr stats --export json`: stdout is "" (empty), "text" (not
\* JSON) or "json" with the parsed document in data.
StatsExit(rc, out, data) == [kind |-> "exit", rc |-> rc, stdout |-> out, data |-> data]
StatsTimeout == [kind |-> "timeout", rc |-> 0, stdout |-> "", data |-> DataOther(Null)]
StatsSpawnError == [kind |-> "oserror", rc |-> 0, stdout |-> "", data |-> DataOther(Null)]

read_stability_score(resp) ==
    IF resp.kind \in {"timeout", "oserror"} THEN Returned(None)
    ELSE IF resp.rc # 0 \/ resp.stdout = "" THEN Returned(None)
    ELSE IF resp.stdout # "json" THEN Returned(None)
    ELSE _extract_stability_score(resp.data)

\* the error_map of run_apr_round with its fallback
error_map_NoTable(rc) == "Exit code " \o ToString(rc)

error_map(rc) ==
    CASE rc = 2 -> "Usage error"
      [] rc = 3 -> "Dependency error (Oracle not found)"
      [] rc = 4 -> "Config error (missing files or workflow)"
      [] rc = 10 -> "Network error"
      [] OTHER -> "Exit code " \o ToString(rc)

\* run_apr_round once the subprocess has answered: what it returns, or that
\* it raises (only TimeoutExpired is caught); the dash before the stderr line
\* is written " - "
run_apr_round(resp) ==
    CASE resp.kind = "oserror" -> [raised |-> TRUE, success |-> FALSE, error_msg |-> ""]
      [] resp.kind = "timeout" ->
            [raised |-> FALSE, success |-> FALSE,
             error_msg |-> "Timed out after " \o ToString(ROUND_TIMEOUT_SECONDS) \o "s"]
      [] resp.kind = "exit" /\ resp.rc = 0 ->
            [raised |-> FALSE, success |-> TRUE, error_msg |-> ""]
      [] OTHER ->
            [raised |-> FALSE, success |-> FALSE,
             error_msg |-> IF resp.stderr = "" THEN error_map(resp.rc)
                           ELSE error_map(resp.rc) \o " - " \o resp.stderr]

\* attempt_cdp_recovery starts the ssh subprocess: the toggle is on and
\* both host and script are set (cdp_configured)
cdp_invokes(cfg) == cfg.cdp_recovery_enabled /\ cfg.cdp_configured

attempt_cdp_recovery_NoFloor(cfg, resp) ==
    IF ~cdp_invokes(cfg) THEN None
    ELSE IF resp.kind # "exit" \/ resp.rc # 0 THEN None
    ELSE IF resp.stdout.chars = 0 THEN None
    ELSE Some(resp.stdout)

\* attempt_cdp_recovery, given the answer of the subprocess if it is started
attempt_cdp_recovery(cfg, resp) ==
    IF ~cdp_invokes(cfg) THEN None
    ELSE IF resp.kind # "exit" \/ resp.rc # 0 THEN None
    ELSE IF resp.stdout.chars = 0 \/ resp.stdout.chars < MIN_OUTPUT_CHARS THEN None
    ELSE Some(resp.stdout)

RoundResult_AlwaysSuccess(r, ok, err, conv, ch, ln, tr, cdp, integ, comm) ==
    [round_num |-> r, success |-> TRUE, error_msg |-> err, convergence_pct |-> conv,
     round_chars |-> ch, round_lines |-> ln, truncated |-> tr,
     cdp_recovery_attempted |-> cdp, integrated |-> integ, committed |-> comm]

RoundResult(r, ok, err, conv, ch, ln, tr, cdp, integ, comm) ==
    [round_num |-> r, success |-> ok, error_msg |-> err, convergence_pct |-> conv,
     round_chars |-> ch, round_lines |-> ln, truncated |-> tr,
     cdp_recovery_attempted |-> cdp, integrated |-> integ, committed |-> comm]

RunSummary ==
    [stopped_reason |-> NoReason, rounds_completed |-> 0, rounds_failed |-> 0,
     results |-> <<>>]

LocInit ==
    [chars |-> 0, line_count |-> 0, truncated |-> FALSE, attempts |-> 0,
     recovered |-> FALSE, backfill_ok |-> FALSE, conv_pct |-> None,
     integrated |-> FALSE, committed |-> FALSE]

\* ------------------------------------------------- decisions of the loop
ShutdownSeen_Ignored(flag) == FALSE

ShutdownSeen_Inverted(flag) == ~flag

ShutdownSeen(flag) == flag

UnderCap_Inclusive(r, e) == r <= e

UnderCap(r, e) == r < e

BumpFailures_ByTwo(c) == c + 2

BumpFailures_Never(c) == c

BumpFailures(c) == c + 1

CapReached_OffByOne(c) == c > MAX_CONSECUTIVE_FAILURES

CapReached_Never(c) == FALSE

CapReached(c) == c >= MAX_CONSECUTIVE_FAILURES

TruncBudgetLeft_Always(a) == TRUE

TruncBudgetLeft_OffByOne(a) == a <= MAX_TRUNCATION_RETRIES

TruncBudgetLeft(a) == a < MAX_TRUNCATION_RETRIES

AcceptedFailures_Kept(c) == c

AcceptedFailures(c) == 0

NextRound_Always(r, accepted) == r + 1

NextRound_Never(r, accepted) == r

NextRound(r, accepted) == IF accepted THEN r + 1 ELSE r

Converged_Strict(conv, target) == conv # None /\ conv[1] > target

Converged_NoneAsZero(conv, target) == (IF conv = None THEN 0 ELSE conv[1]) >= target

Converged(conv, target) == conv # None /\ conv[1] >= target

FinalReason_Overwrite(reason, r, e) ==
    IF r >= e /\ reason = NoReason THEN "max_rounds_reached" ELSE "completed"

FinalReason_StrictCap(reason, r, e) ==
    LET capped == IF r > e /\ reason = NoReason THEN "max_rounds_reached" ELSE reason
    IN IF capped = NoReason THEN "completed" ELSE capped

FinalReason(reason, r, e) ==
    LET capped == IF r >= e /\ reason = NoReason THEN "max_rounds_reached" ELSE reason
    IN IF capped = NoReason THEN "completed" ELSE capped

write_status_Running(o, cur, completed, status) ==
    statusFile' = IF o = "ok"
                  THEN Some([current_round |-> cur, rounds_completed |-> completed,
                             status |-> "running"])
                  ELSE statusFile

write_status(o, cur, completed, status) ==
    statusFile' = IF o = "ok"
                  THEN Some([current_round |-> cur, rounds_completed |-> completed,
                             status |-> status])
                  ELSE statusFile

_save_summary(o, s) == summaryFile' = IF o = "ok" THEN Some(s) ELSE summaryFile

\* ------------------------------------------- atomic_write_json, step by step
Writers == 1..NumWriters

\* Names in log_dir: the target path, and the temporary file of each caller
\* (NamedTemporaryFile picks a fresh name in the same directory for each call;
\* a temporary file left by an earlier call of the same caller is forgotten).
path == 0

tmp_path_InPlace(w) == path

tmp_path(w) == w

\* the i-th chunk of the JSON text of call k of caller w
Chunk(w, k, i) == <<w, k, i>>

\* the complete JSON text of that call
Payload(w, k) == [i \in 1..PayloadChunks |-> Chunk(w, k, i)]

AwInit ==
    /\ dir = [x \in 0..NumWriters |-> None]
    /\ wpc = [w \in Writers |-> "idle"]
    /\ calls = [w \in Writers |-> 0]

\* --------------------------------------------------------------------- Init
\* no module-level function is being called on its own
FnIdle ==
    /\ fn = "none"
    /\ arg = <<>>
    /\ ret = None

OrchInitIn(cfgs) ==
    /\ config \in cfgs
    /\ files \in InitFiles
    /\ backups = InitBackups(files)
    /\ statusFile = None
    /\ summaryFile = None
    /\ pc = "start"
    /\ run = 1
    /\ shutting_down = FALSE
    /\ summary = RunSummary
    /\ output_sizes = <<>>
    /\ truncation_attempts = [n \in Rounds |-> 0]
    /\ consecutive_failures = 0
    /\ round_num = 0
    /\ start = 0
    /\ end = 0
    /\ loc = LocInit
    /\ invoked = <<>>
    /\ exit_code = None
    /\ prev = [reason |-> NoReason, round |-> 0, accepted |-> {}]
    /\ fs_faulty \in BOOLEAN
    /\ fs_faulty => config \in {BaseConfig, [BaseConfig EXCEPT !.integrate = TRUE]}
    /\ files # NoFiles => config.max_rounds <= 1 /\ ~fs_faulty

OrchInit == OrchInitIn(Configs)

Init ==
    /\ OrchInit
    /\ AwInit
    /\ FnIdle

\* ------------------------------------------------------------------ actions
Running == pc \notin {"done", "returned", "exited", "crashed"}

\* SIGINT / SIGTERM delivered to the process: _handle_signal
Signal ==
    /\ Running
    /\ ~shutting_down
    /\ shutting_down' = TRUE
    /\ UNCHANGED <<config, files, backups, statusFile, summaryFile, pc, run,
                   summary, output_sizes, truncation_attempts,
                   consecutive_failures, round_num, start, end, loc, invoked,
                   exit_code, prev, fs_faulty, awvars, fnvars>>

\* preflight() and the branch of run() that follows it
Preflight(ok, git, saved) ==
    /\ pc = "start"
    /\ config' = [config EXCEPT !.commit = @ /\ git]
    /\ IF ok
       THEN /\ pc' = "detect"
            /\ UNCHANGED <<summary, summaryFile, exit_code>>
       ELSE IF config.dry_run
       THEN /\ pc' = "returned"
            /\ exit_code' = Some(0)
            /\ UNCHANGED <<summary, summaryFile>>
       ELSE /\ summary' = [summary EXCEPT !.stopped_reason = "preflight_failed"]
            /\ _save_summary(saved, summary')
            /\ exit_code' = Some(1)
            /\ pc' = IF saved = "raised" THEN "crashed" ELSE "exited"
    /\ UNCHANGED <<files, backups, statusFile, run, shutting_down, output_sizes,
                   truncation_attempts, consecutive_failures, round_num, start,
                   end, loc, invoked, prev, fs_faulty, awvars, fnvars>>

\* the dry-run return, or the loop's set-up
EnterLoop(s) ==
    IF config.dry_run
    THEN /\ pc' = "returned"
         /\ exit_code' = Some(0)
         /\ UNCHANGED <<consecutive_failures, round_num>>
    ELSE /\ pc' = "top"
         /\ consecutive_failures' = 0
         /\ round_num' = s
         /\ UNCHANGED exit_code

\* start-round detection and seeding; with start > 1 run_backfill(force) starts
DetectStart ==
    /\ pc = "detect"
    /\ LET last == detect_last_round(files, backups)
           s == IF config.start_round # None THEN config.start_round[1] ELSE last + 1
       IN /\ start' = s
          /\ end' = s + config.max_rounds
          /\ output_sizes' = IF config.start_round = None /\ last > 0
                             THEN output_sizes \o _seed_output_sizes(files, last)
                             ELSE output_sizes
          /\ IF s > 1
             THEN /\ pc' = "prefill"
                  /\ UNCHANGED <<consecutive_failures, round_num, exit_code>>
             ELSE EnterLoop(s)
    /\ UNCHANGED <<config, files, backups, statusFile, summaryFile, run,
                   shutting_down, summary, truncation_attempts, loc, invoked, prev, fs_faulty, awvars, fnvars>>

\* the start-up run_backfill returns (its result is not used)
PrefillReturn ==
    /\ pc = "prefill"
    /\ EnterLoop(start)
    /\ UNCHANGED <<config, files, backups, statusFile, summaryFile, run,
                   shutting_down, summary, output_sizes, truncation_attempts,
                   start, end, loc, invoked, prev, fs_faulty, awvars, fnvars>>

\* `while round_num < end`, the shutdown check, write_status("running") and
\* the start of run_apr_round
LoopTop(wrote) ==
    /\ pc = "top"
    /\ IF UnderCap(round_num, end)
       THEN IF ShutdownSeen(shutting_down)
            THEN /\ summary' = [summary EXCEPT !.stopped_reason = "shutdown"]
                 /\ pc' = "end"
                 /\ UNCHANGED <<statusFile, invoked, loc, exit_code>>
            ELSE /\ Len(summary.results) < MaxResults
                 /\ write_status(wrote, round_num, summary.rounds_completed, "running")
                 /\ IF wrote = "raised"
                    THEN /\ pc' = "crashed"
                         /\ exit_code' = Some(1)
                         /\ UNCHANGED <<invoked, loc>>
                    ELSE /\ invoked' = Append(invoked, round_num)
                         /\ loc' = LocInit
                         /\ pc' = "exec"
                         /\ UNCHANGED exit_code
                 /\ UNCHANGED summary
       ELSE /\ pc' = "end"
            /\ UNCHANGED <<summary, statusFile, invoked, loc, exit_code>>
    /\ UNCHANGED <<config, files, backups, summaryFile, run, shutting_down,
                   output_sizes, truncation_attempts, consecutive_failures,
                   round_num, start, end, prev, fs_faulty, awvars, fnvars>>

FailedSummary_NoCount(s, res, reason) ==
    [s EXCEPT !.results = Append(@, res),
              !.stopped_reason = IF reason = NoReason THEN @ ELSE reason]

FailedSummary(s, res, reason) ==
    [s EXCEPT !.rounds_failed = @ + 1,
              !.results = Append(@, res),
              !.stopped_reason = IF reason = NoReason THEN @ ELSE reason]

\* run_apr_round returns (or raises) and the `if not success` branch
ExecReturn(outcome, wrote, w) ==
    /\ pc = "exec"
    /\ LET r == run_apr_round(outcome) IN
       IF r.raised
       THEN /\ pc' = "crashed"
            /\ exit_code' = Some(1)
            /\ UNCHANGED <<files, summary, consecutive_failures, round_num>>
       ELSE IF ~r.success
            THEN LET c == BumpFailures(consecutive_failures)
                     res == RoundResult(round_num, FALSE, r.error_msg, None, 0, 0,
                                        FALSE, FALSE, FALSE, FALSE)
                     reason == IF CapReached(c) THEN "consecutive_failures" ELSE NoReason
                 IN /\ consecutive_failures' = c
                    /\ summary' = FailedSummary(summary, res, reason)
                    /\ pc' = IF reason # NoReason THEN "end"
                             ELSE IF FAILURE_BACKOFF_SECONDS > 0 THEN "backoff" ELSE "top"
                    /\ round_num' = NextRound(round_num, FALSE)
                    /\ UNCHANGED <<files, exit_code>>
            ELSE /\ files' = IF wrote THEN [files EXCEPT ![round_num] = w] ELSE files
                 /\ pc' = "verify"
                 /\ UNCHANGED <<summary, consecutive_failures, round_num, exit_code>>
    /\ UNCHANGED <<config, backups, statusFile, summaryFile, run, shutting_down,
                   output_sizes, truncation_attempts, start, end, loc, invoked, prev, fs_faulty, awvars, fnvars>>

\* time.sleep(FAILURE_BACKOFF_SECONDS) is over; `continue`
Backoff ==
    /\ pc = "backoff"
    /\ pc' = "top"
    /\ UNCHANGED <<config, files, backups, statusFile, summaryFile, run,
                   shutting_down, summary, output_sizes, truncation_attempts,
                   consecutive_failures, round_num, start, end, loc, invoked,
                   exit_code, prev, fs_faulty, awvars, fnvars>>

\* the truncation failure branch (`if truncated:` after recovery)
TruncationFailure(ch, ln, att, rec) ==
    LET c == BumpFailures(consecutive_failures)
        res == RoundResult(round_num, FALSE, "output_truncated", None, ch, ln, TRUE,
                           rec \/ config.cdp_recovery_enabled, FALSE, FALSE)
        reason == IF TruncBudgetLeft(att)
                  THEN IF CapReached(c) THEN "consecutive_failures" ELSE NoReason
                  ELSE "truncated_output"
    IN /\ consecutive_failures' = c
       /\ summary' = FailedSummary(summary, res, reason)
       /\ pc' = IF reason # NoReason THEN "end"
                ELSE IF FAILURE_BACKOFF_SECONDS > 0 THEN "backoff" ELSE "top"
       /\ round_num' = NextRound(round_num, FALSE)

\* the round is accepted: counters, then run_backfill starts
Accept ==
    /\ consecutive_failures' = AcceptedFailures(consecutive_failures)
    /\ summary' = [summary EXCEPT !.rounds_completed = @ + 1]
    /\ pc' = "backfill"
    /\ UNCHANGED round_num

\* reading the artifact, the first truncation check, archiving, and either
\* the start of the recovery subprocess or (recovery off) the failure branch
Verify(renamed) ==
    /\ pc = "verify"
    /\ LET rf == files[round_num]
           ch == IF rf.exists THEN rf.chars ELSE 0
           ln == IF rf.exists THEN rf.lines ELSE 0
           tr == check_output_truncation(rf, output_sizes)
           att == truncation_attempts[round_num] + 1
       IN IF rf.exists /\ ~rf.readable
          THEN /\ pc' = "crashed"
               /\ exit_code' = Some(1)
               /\ UNCHANGED <<files, backups, truncation_attempts, loc, summary,
                              output_sizes, consecutive_failures, round_num>>
          ELSE IF ~tr
          THEN /\ output_sizes' = IF ch > 0 THEN Append(output_sizes, ch) ELSE output_sizes
               /\ loc' = [loc EXCEPT !.chars = ch, !.line_count = ln, !.truncated = FALSE]
               /\ Accept
               /\ UNCHANGED <<files, backups, truncation_attempts, exit_code>>
          ELSE /\ UNCHANGED exit_code
               /\ truncation_attempts' = [truncation_attempts EXCEPT ![round_num] = att]
               /\ loc' = [loc EXCEPT !.chars = ch, !.line_count = ln,
                                     !.truncated = TRUE, !.attempts = att]
               /\ IF rf.exists /\ renamed
                  THEN /\ backups' = [backups EXCEPT ![<<round_num, att>>] = rf]
                       /\ files' = [files EXCEPT ![round_num] = Absent]
                  ELSE UNCHANGED <<files, backups>>
               /\ UNCHANGED output_sizes
               /\ IF cdp_invokes(config)
                  THEN /\ pc' = "recover"
                       /\ UNCHANGED <<summary, consecutive_failures, round_num>>
                  ELSE TruncationFailure(ch, ln, att, FALSE)
    /\ UNCHANGED <<config, statusFile, summaryFile, run, shutting_down, start,
                   end, invoked, prev, fs_faulty, awvars, fnvars>>

\* the recovery subprocess answers; write, re-check, accept or fail
RecoverReturn(resp, written) ==
    /\ pc = "recover"
    /\ LET got == attempt_cdp_recovery(config, resp)
           rec == got # None /\ written
       IN IF ~rec
          THEN /\ loc' = [loc EXCEPT !.recovered = FALSE]
               /\ TruncationFailure(loc.chars, loc.line_count, loc.attempts, FALSE)
               /\ UNCHANGED <<files, output_sizes>>
          ELSE LET text == got[1]
                   still == check_output_truncation(text, output_sizes)
               IN /\ files' = [files EXCEPT ![round_num] = text]
                  /\ loc' = [loc EXCEPT !.recovered = TRUE, !.chars = text.chars,
                                        !.line_count = text.lines, !.truncated = still]
                  /\ IF ~still
                     THEN /\ output_sizes' = Append(output_sizes, text.chars)
                          /\ Accept
                     ELSE /\ TruncationFailure(text.chars, text.lines, loc.attempts, TRUE)
                          /\ UNCHANGED output_sizes
    /\ UNCHANGED <<config, backups, statusFile, summaryFile, run, shutting_down,
                   truncation_attempts, start, end, invoked, exit_code, prev, fs_faulty, awvars, fnvars>>

AfterConvergence_SkipCommit ==
    IF config.integrate THEN "integrate" ELSE "record"

AfterConvergence ==
    IF config.integrate THEN "integrate" ELSE IF config.commit THEN "commit" ELSE "record"

\* run_backfill returns
BackfillReturn(ok) ==
    /\ pc = "backfill"
    /\ loc' = [loc EXCEPT !.backfill_ok = ok, !.conv_pct = None]
    /\ pc' = IF ok THEN "score" ELSE AfterConvergence
    /\ UNCHANGED <<config, files, backups, statusFile, summaryFile, run,
                   shutting_down, summary, output_sizes, truncation_attempts,
                   consecutive_failures, round_num, start, end, invoked,
                   exit_code, prev, fs_faulty, awvars, fnvars>>

\* read_stability_score returns
ScoreReturn(o) ==
    /\ pc = "score"
    /\ IF o.raised
       THEN /\ pc' = "crashed"
            /\ exit_code' = Some(1)
            /\ UNCHANGED loc
       ELSE /\ loc' = [loc EXCEPT !.conv_pct = o.score]
            /\ pc' = AfterConvergence
            /\ UNCHANGED exit_code
    /\ UNCHANGED <<config, files, backups, statusFile, summaryFile, run,
                   shutting_down, summary, output_sizes, truncation_attempts,
                   consecutive_failures, round_num, start, end, invoked,
                   prev, fs_faulty, awvars, fnvars>>

\* run_integrate returns
IntegrateReturn(o) ==
    /\ pc = "integrate"
    /\ IF o = "raised"
       THEN /\ pc' = "crashed"
            /\ exit_code' = Some(1)
            /\ UNCHANGED loc
       ELSE /\ loc' = [loc EXCEPT !.integrated = (o = "ok")]
            /\ pc' = IF config.commit THEN "commit" ELSE "record"
            /\ UNCHANGED exit_code
    /\ UNCHANGED <<config, files, backups, statusFile, summaryFile, run,
                   shutting_down, summary, output_sizes, truncation_attempts,
                   consecutive_failures, round_num, start, end, invoked,
                   prev, fs_faulty, awvars, fnvars>>

\* git_commit_and_push returns (a sha or nothing)
CommitReturn(sha) ==
    /\ pc = "commit"
    /\ loc' = [loc EXCEPT !.committed = (sha # None /\ sha[1] # "")]
    /\ pc' = "record"
    /\ UNCHANGED <<config, files, backups, statusFile, summaryFile, run,
                   shutting_down, summary, output_sizes, truncation_attempts,
                   consecutive_failures, round_num, start, end, invoked,
                   exit_code, prev, fs_faulty, awvars, fnvars>>

\* the success RoundResult, the convergence check and the advance
Record ==
    /\ pc = "record"
    /\ LET res == RoundResult(round_num, TRUE, "None", loc.conv_pct, loc.chars,
                              loc.line_count, loc.truncated, FALSE, loc.integrated,
                              loc.committed)
           conv == Converged(loc.conv_pct, config.convergence_target)
           next == NextRound(round_num, TRUE)
       IN /\ summary' = [summary EXCEPT
                            !.results = Append(@, res),
                            !.stopped_reason = IF conv THEN "converged" ELSE @]
          /\ IF conv
             THEN /\ pc' = "end"
                  /\ UNCHANGED round_num
             ELSE /\ round_num' = next
                  /\ pc' = IF config.cooldown > 0 /\ next < end THEN "cooldown" ELSE "top"
    /\ UNCHANGED <<config, files, backups, statusFile, summaryFile, run,
                   shutting_down, output_sizes, truncation_attempts,
                   consecutive_failures, start, end, loc, invoked, exit_code, prev, fs_faulty, awvars, fnvars>>

\* time.sleep(config.cooldown) is over
Cooldown ==
    /\ pc = "cooldown"
    /\ pc' = "top"
    /\ UNCHANGED <<config, files, backups, statusFile, summaryFile, run,
                   shutting_down, summary, output_sizes, truncation_attempts,
                   consecutive_failures, round_num, start, end, loc, invoked,
                   exit_code, prev, fs_faulty, awvars, fnvars>>

\* after the loop: the final stop reason, _save_summary, write_status, notify
EndOfLoop(saved, wrote) ==
    /\ pc = "end"
    /\ LET reason == FinalReason(summary.stopped_reason, round_num, end)
       IN /\ summary' = [summary EXCEPT !.stopped_reason = reason]
          /\ _save_summary(saved, summary')
          /\ IF saved = "raised"
             THEN UNCHANGED statusFile
             ELSE write_status(wrote, round_num, summary.rounds_completed, reason)
          /\ IF saved = "raised" \/ wrote = "raised"
             THEN pc' = "crashed" /\ exit_code' = Some(1)
             ELSE pc' = "done" /\ exit_code' = Some(0)
    /\ UNCHANGED <<config, files, backups, run, shutting_down, output_sizes,
                   truncation_attempts, consecutive_failures, round_num, start,
                   end, loc, invoked, prev, fs_faulty, awvars, fnvars>>

SuccessRounds(results) ==
    {results[i].round_num : i \in {j \in 1..Len(results) : results[j].success}}

\* the process is started again on the same directory: main()
Restart ==
    /\ ~Running
    /\ run < MaxRuns
    /\ run' = run + 1
    /\ prev' = [reason |-> summary.stopped_reason, round |-> round_num,
                accepted |-> prev.accepted \cup SuccessRounds(summary.results)]
    /\ pc' = "start"
    /\ shutting_down' = FALSE
    /\ summary' = RunSummary
    /\ output_sizes' = <<>>
    /\ truncation_attempts' = [n \in Rounds |-> 0]
    /\ consecutive_failures' = 0
    /\ round_num' = 0
    /\ start' = 0
    /\ end' = 0
    /\ loc' = LocInit
    /\ invoked' = <<>>
    /\ exit_code' = None
    /\ UNCHANGED <<config, files, backups, statusFile, summaryFile, fs_faulty, awvars, fnvars>>

\* the steps of run() other than the cool-down sleep between two rounds
RoundStep ==
    \/ \E ok, git \in BOOLEAN, saved \in PersistOutcomes : Preflight(ok, git, saved)
    \/ DetectStart
    \/ PrefillReturn
    \/ \E wrote \in PersistOutcomes : LoopTop(wrote)
    \/ \E outcome \in ExecOutcomes, wrote \in BOOLEAN, w \in ExecWrites :
          ExecReturn(outcome, wrote, w)
    \/ Backoff
    \/ \E renamed \in FsOutcomes : Verify(renamed)
    \/ \E resp \in RecoveryResponses, written \in FsOutcomes : RecoverReturn(resp, written)
    \/ \E ok \in BOOLEAN : BackfillReturn(ok)
    \/ \E o \in ScoreOutcomes : ScoreReturn(o)
    \/ \E o \in IntegrateOutcomes : IntegrateReturn(o)
    \/ \E sha \in CommitOutcomes : CommitReturn(sha)
    \/ Record
    \/ \E saved, wrote \in PersistOutcomes : EndOfLoop(saved, wrote)

Step == RoundStep \/ Cooldown

Next == Step \/ Signal

Spec == Init /\ [][Next]_vars

\* The same process started with any integer as --max-rounds, the caps below
\* one included
InitAnyCap ==
    /\ OrchInitIn(AnyCapConfigs)
    /\ AwInit
    /\ FnIdle

SpecAnyCap == InitAnyCap /\ [][Next]_vars

\* Runs of the process one after the other on the same directories, each of
\* one round (max_rounds = 1): after its only round round_num > end, so the
\* cool-down sleep of line 1375 is never reached and is no step of these runs.
InitRestart ==
    /\ Init
    /\ ~fs_faulty
    /\ config \in { BaseConfig, OneRoundConfig }
    /\ files = NoFiles

NextRestart == RoundStep \/ Signal \/ Restart

SpecRestart == InitRestart /\ [][NextRestart]_vars

\* The process keeps executing: every step of run() that can be taken is taken
\* (weak fairness of Step; no signal has to arrive).  Explored on a sound
\* filesystem, with recovery in one-round runs only.
InitLive ==
    /\ Init
    /\ ~fs_faulty
    /\ cdp_invokes(config) => config.max_rounds <= 1

SpecLive == InitLive /\ [][Next]_vars /\ WF_vars(Step)

\* The callers of atomic_write_json (write_status, _save_summary) on one path,
\* each call taken one filesystem operation at a time; any operation can fail
\* with OSError and the calling process can be killed between any two of them.
AwCall(w) ==
    /\ wpc[w] = "idle"
    /\ calls[w] < MaxCalls
    /\ calls' = [calls EXCEPT ![w] = @ + 1]
    /\ wpc' = [wpc EXCEPT ![w] = "mkdir"]
    /\ UNCHANGED <<dir, mainvars, fnvars>>

\* path.parent.mkdir(parents=True, exist_ok=True), before the try block
AwMkdir(w, ok) ==
    /\ wpc[w] = "mkdir"
    /\ wpc' = [wpc EXCEPT ![w] = IF ok THEN "create" ELSE "raised"]
    /\ UNCHANGED <<dir, calls, mainvars, fnvars>>

\* tempfile.NamedTemporaryFile(dir=path.parent, delete=False, ...)
AwCreate(w, ok) ==
    /\ wpc[w] = "create"
    /\ IF ok
       THEN /\ dir' = [dir EXCEPT ![tmp_path(w)] = Some(<<>>)]
            /\ wpc' = [wpc EXCEPT ![w] = "dump"]
       ELSE /\ wpc' = [wpc EXCEPT ![w] = "returned"]
            /\ UNCHANGED dir
    /\ UNCHANGED <<calls, mainvars, fnvars>>

\* json.dump writes the next chunk; after the last one flush, fsync and close
AwDump(w, ok) ==
    /\ wpc[w] = "dump"
    /\ dir[tmp_path(w)] # None
    /\ LET text == dir[tmp_path(w)][1]
           n == Len(text)
       IN IF ~ok
          THEN /\ wpc' = [wpc EXCEPT ![w] = "returned"]
               /\ UNCHANGED dir
          ELSE IF n >= PayloadChunks
          THEN /\ wpc' = [wpc EXCEPT ![w] = "replace"]
               /\ UNCHANGED dir
          ELSE /\ dir' = [dir EXCEPT ![tmp_path(w)] =
                              Some(Append(text, Chunk(w, calls[w], n + 1)))]
               /\ UNCHANGED wpc
    /\ UNCHANGED <<calls, mainvars, fnvars>>

\* os.replace(tmp_path, path)
AwReplace(w, ok) ==
    /\ wpc[w] = "replace"
    /\ IF ok
       THEN /\ dir' = IF tmp_path(w) = path THEN dir
                      ELSE [dir EXCEPT ![path] = dir[tmp_path(w)],
                                       ![tmp_path(w)] = None]
            /\ wpc' = [wpc EXCEPT ![w] = "fsyncdir"]
       ELSE /\ wpc' = [wpc EXCEPT ![w] = "returned"]
            /\ UNCHANGED dir
    /\ UNCHANGED <<calls, mainvars, fnvars>>

\* os.open / os.fsync / os.close of the directory; a failure is swallowed
AwFsyncDir(w, ok) ==
    /\ wpc[w] = "fsyncdir"
    /\ wpc' = [wpc EXCEPT ![w] = "returned"]
    /\ UNCHANGED <<dir, calls, mainvars, fnvars>>

\* the call has returned to write_status / _save_summary and to the loop
AwReturn(w) ==
    /\ wpc[w] = "returned"
    /\ wpc' = [wpc EXCEPT ![w] = "idle"]
    /\ UNCHANGED <<dir, calls, mainvars, fnvars>>

\* the calling process is terminated in the middle of a call
AwKill(w) ==
    /\ wpc[w] \in {"mkdir", "create", "dump", "replace", "fsyncdir"}
    /\ wpc' = [wpc EXCEPT ![w] = "killed"]
    /\ UNCHANGED <<dir, calls, mainvars, fnvars>>

InitWrite ==
    /\ Init
    /\ config = BaseConfig
    /\ files = NoFiles
    /\ ~fs_faulty

NextWrite ==
    \E w \in Writers :
       \/ AwCall(w)
       \/ \E ok \in BOOLEAN : AwMkdir(w, ok)
       \/ \E ok \in BOOLEAN : AwCreate(w, ok)
       \/ \E ok \in BOOLEAN : AwDump(w, ok)
       \/ \E ok \in BOOLEAN : AwReplace(w, ok)
       \/ \E ok \in BOOLEAN : AwFsyncDir(w, ok)
       \/ AwReturn(w)
       \/ AwKill(w)

SpecWrite == InitWrite /\ [][NextWrite]_vars

\* ------------------------------------------- module-level functions, one call
\* The functions run() calls, each called once on its own with arguments
\* drawn from the sets below.
Leaves ==
    { Missing, Null, Str, List, NumStr(82),
      Num(-50), Num(0), Num(82), Num(100), Num(101), Num(9100), Num(10000),
      Num(15000) }

\* documents with up to two of the five candidate keys present, documents
\* whose "convergence" is not an object, and documents that are not objects
ScoreDocs ==
    { Data(ConvDict(IF a = 1 THEN x ELSE IF b = 1 THEN y ELSE Missing,
                    IF a = 2 THEN x ELSE IF b = 2 THEN y ELSE Missing,
                    IF a = 3 THEN x ELSE IF b = 3 THEN y ELSE Missing),
           IF a = 4 THEN x ELSE IF b = 4 THEN y ELSE Missing,
           IF a = 5 THEN x ELSE IF b = 5 THEN y ELSE Missing) :
         a \in 1..5, b \in 1..5, x \in Leaves, y \in Leaves }
    \cup { Data(ConvOther(v), Missing, Num(82)) :
              v \in {Null, Num(0), Json("str", 0, TRUE), Json("list", 0, TRUE),
                     Num(90), Str, List} }
    \cup { DataOther(v) : v \in {Null, Num(82), Str, List} }

StatsResponses ==
    { StatsTimeout, StatsSpawnError,
      StatsExit(1, "json", Data(ConvDict(Num(82), Missing, Missing), Missing, Missing)),
      StatsExit(0, "", DataOther(Null)),
      StatsExit(0, "text", DataOther(Null)) }
    \cup { StatsExit(0, "json", d) : d \in ScoreDocs }

ExitCodes == {-9, 0, 1, 2, 3, 4, 5, 10, 127}

ExecResponses ==
    { TimedOut, SpawnError }
       \cup { Exited(rc, err) : rc \in ExitCodes, err \in {"", "boom"} }

RecoveryCalls ==
    { [cfg |-> [BaseConfig EXCEPT !.cdp_recovery_enabled = en, !.cdp_configured = cf],
       resp |-> r] :
         en \in BOOLEAN, cf \in BOOLEAN,
         r \in RecoveryResponses
                \cup {[kind |-> "exit", rc |-> 1, stdout |-> Good],
                      [kind |-> "exit", rc |-> 0, stdout |-> Empty],
                      [kind |-> "exit", rc |-> 0, stdout |-> File(199, 9, "ok")],
                      [kind |-> "exit", rc |-> 0, stdout |-> File(200, 9, "ok")]} }

EndingTags ==
    { "ok", "fence2", "fence3", "fence4", "xfence2", "tick", "novowel", "vowel",
      "short3", "rhythm", "upper", "upperI", "digit", "heading", "blank" }

\* A text given piece by piece, NL standing for one newline character:
\* len(content) and the number of newlines in content
NL == "NL"
text_chars(pieces) ==
    Sum([i \in 1..Len(pieces) |-> IF pieces[i] = NL THEN 1 ELSE Len(pieces[i])])
text_lines(pieces) == Cardinality({i \in 1..Len(pieces) : pieces[i] = NL})

\* the round file that holds the given text
read_text(pieces, tag) == File(text_chars(pieces), text_lines(pieces), tag)

\* the sample artifact of the specification's scenario
SampleArtifact ==
    << "## Intro", NL,
       "Some text here that is long enough to pass both the character and line thresholds for a valid sample.",
       NL >>

DetectorFiles ==
    { Absent }
       \cup { [File(c, l, t) EXCEPT !.readable = r] :
                 c \in {0, 100, 199, 200, 299, 300, 301, 360, 999, 1000, 1200},
                 l \in {0, 4, 5, 40},
                 t \in EndingTags,
                 r \in BOOLEAN }

Histories ==
    { <<>>, <<1000>>, <<1200>>, <<1000, 1000, 1001>>, <<5000, 1200>>, <<300, 250>> }

DetectorCalls ==
    { [f |-> f, sizes |-> h] : f \in DetectorFiles, h \in Histories }
       \cup { [f |-> read_text(SampleArtifact, "sentence"), sizes |-> <<>>] }

FnCalls ==
    { [fn |-> "_extract_stability_score", arg |-> d] : d \in ScoreDocs }
       \cup { [fn |-> "read_stability_score", arg |-> r] : r \in StatsResponses }
       \cup { [fn |-> "run_apr_round", arg |-> r] : r \in ExecResponses }
       \cup { [fn |-> "attempt_cdp_recovery", arg |-> c] : c \in RecoveryCalls }
       \cup { [fn |-> "check_output_truncation", arg |-> c] : c \in DetectorCalls }

InitFn ==
    /\ OrchInit
    /\ AwInit
    /\ config = BaseConfig
    /\ files = NoFiles
    /\ ~fs_faulty
    /\ \E c \in FnCalls : fn = c.fn /\ arg = c.arg
    /\ ret = None

ExtractScore ==
    /\ fn = "_extract_stability_score"
    /\ ret = None
    /\ ret' = Some(_extract_stability_score(arg))
    /\ UNCHANGED <<fn, arg, mainvars, awvars>>

ReadScore ==
    /\ fn = "read_stability_score"
    /\ ret = None
    /\ ret' = Some(read_stability_score(arg))
    /\ UNCHANGED <<fn, arg, mainvars, awvars>>

\* run_apr_round with the one subprocess.run it makes
RunAprRound ==
    /\ fn = "run_apr_round"
    /\ ret = None
    /\ ret' = Some(run_apr_round(arg))
    /\ UNCHANGED <<fn, arg, mainvars, awvars>>

\* attempt_cdp_recovery: whether the ssh subprocess was started, and the text
AttemptCdpRecovery ==
    /\ fn = "attempt_cdp_recovery"
    /\ ret = None
    /\ ret' = Some([invoked |-> cdp_invokes(arg.cfg),
                    recovered |-> attempt_cdp_recovery(arg.cfg, arg.resp)])
    /\ UNCHANGED <<fn, arg, mainvars, awvars>>

\* check_output_truncation reads the file and the history it is given
CheckOutputTruncation ==
    /\ fn = "check_output_truncation"
    /\ ret = None
    /\ ret' = Some(check_output_truncation(arg.f, arg.sizes))
    /\ arg' = arg
    /\ UNCHANGED <<fn, mainvars, awvars>>

NextFn ==
    \/ ExtractScore
    \/ ReadScore
    \/ RunAprRound
    \/ AttemptCdpRecovery
    \/ CheckOutputTruncation

SpecFn == InitFn /\ [][NextFn]_vars

\* ------------------------------------------------------------------- claims
results == summary.results

StopReasons ==
    {"preflight_failed", "shutdown", "consecutive_failures", "truncated_output",
     "converged", "max_rounds_reached", "completed"}

IsTruncFailure(res) == ~res.success /\ res.error_msg = "output_truncated"

IsExecFailure(res) == ~res.success /\ res.error_msg # "output_truncated"

\* the last n results all satisfy P
LastAre(n, P(_)) ==
    /\ Len(results) >= n
    /\ \A k \in (Len(results) - n + 1)..Len(results) : P(results[k])

IsFailure(res) == ~res.success

RECURSIVE TrailingFailures(_)
TrailingFailures(rs) ==
    IF rs = <<>> \/ Last(rs).success THEN 0
    ELSE 1 + TrailingFailures(SubSeq(rs, 1, Len(rs) - 1))

TruncCount(r) ==
    Cardinality({i \in 1..Len(results) :
                    IsTruncFailure(results[i]) /\ results[i].round_num = r})

\* C1: a failed attempt that does not stop the loop (an executor failure, or a
\* truncation failure with retry budget left) leaves the round number
\* unchanged: the executor invocation that follows it is for the same round.
C1_RetrySameRound ==
    /\ \A i \in 1..Len(results) :
          ~results[i].success /\ i < Len(invoked)
             => invoked[i + 1] = results[i].round_num
    /\ (results # <<>> /\ ~Last(results).success /\ pc \in {"backoff", "top", "end"})
          => round_num = Last(results).round_num

C1_Witness ==
    /\ Len(invoked) >= 3
    /\ Len(results) >= 2
    /\ IsExecFailure(results[1])
    /\ IsTruncFailure(results[2])

\* C2: three executor failures in a row stop the run with consecutive_failures
\* at the third one, and a run stopped with that reason ends in three failed
\* attempts (never two failures followed by an accepted round).
C2_ThreeExecutorFailuresStop ==
    /\ \A i \in 3..Len(results) :
          (\A k \in (i - 2)..i : IsExecFailure(results[k]))
             => /\ i = Len(results)
                /\ summary.stopped_reason = "consecutive_failures"
                /\ pc \in {"end", "done", "crashed"}
    /\ summary.stopped_reason = "consecutive_failures" => LastAre(3, IsFailure)

C2_Witness ==
    /\ summary.stopped_reason = "consecutive_failures"
    /\ Len(results) = 6
    /\ IsExecFailure(results[1]) /\ IsExecFailure(results[2]) /\ results[3].success
    /\ LastAre(3, IsExecFailure)

\* C3 (as claimed): a run that stops with consecutive_failures ends in three
\* executor (non-truncation) failures; truncation failures never count.
C3_OnlyExecutorFailures ==
    summary.stopped_reason = "consecutive_failures" => LastAre(3, IsExecFailure)

\* C3 (amended): a run that stops with consecutive_failures ends in three failed
\* attempts of either kind (executor failure or truncation failure) with no
\* accepted round among them; a truncation failure is the last of them only
\* while its round's truncation-attempt counter is below the retry cap.
C3_ThreeFailuresOfEitherKind ==
    summary.stopped_reason = "consecutive_failures"
       => /\ LastAre(3, IsFailure)
          /\ IsTruncFailure(Last(results))
                => truncation_attempts[Last(results).round_num] < MAX_TRUNCATION_RETRIES

C3_Witness ==
    /\ summary.stopped_reason = "consecutive_failures"
    /\ Len(results) >= 3
    /\ IsTruncFailure(Last(results))
    /\ IsExecFailure(results[Len(results) - 1])

\* C4: the consecutive-failure counter is 0 right after every accepted round
\* (first pass or after recovery) and never counts a failure that came before
\* the last accepted round.
C4_CounterResetOnAccept ==
    /\ pc \in {"backfill", "score", "integrate", "commit", "record"}
          => consecutive_failures = 0
    /\ (results # <<>> /\ Last(results).success) => consecutive_failures = 0
    /\ consecutive_failures <= TrailingFailures(results)

C4_Witness ==
    /\ pc = "backfill"
    /\ loc.recovered
    /\ TrailingFailures(results) = 2
    /\ Len(results) > 2

\* C5: three truncation failures on one round number stop the run with
\* truncated_output at the third of them: not earlier, and no fourth attempt.
C5_TruncatedAtThird ==
    /\ \A r \in Rounds :
          /\ truncation_attempts[r] <= MAX_TRUNCATION_RETRIES
          /\ TruncCount(r) <= MAX_TRUNCATION_RETRIES
          /\ TruncCount(r) = MAX_TRUNCATION_RETRIES
                => /\ summary.stopped_reason = "truncated_output"
                   /\ round_num = r
                   /\ Len(invoked) = Len(results)
                   /\ Last(invoked) = r
    /\ summary.stopped_reason = "truncated_output"
          => /\ TruncCount(round_num) = MAX_TRUNCATION_RETRIES
             /\ LastAre(3, IsTruncFailure)
             /\ pc \in {"end", "done", "crashed"}

C5_Witness ==
    /\ summary.stopped_reason = "truncated_output"
    /\ Last(results).round_chars = RecTrunc.chars
    /\ Last(results).round_num = 2

\* C6: an accepted round whose score is known and >= the target stops the loop
\* with converged on that round: it is the last result, the round number is
\* not advanced and the executor is not invoked again.
C6_ConvergedStopsOnSameRound ==
    \A i \in 1..Len(results) :
       (/\ results[i].success
        /\ results[i].convergence_pct # None
        /\ results[i].convergence_pct[1] >= config.convergence_target)
          => /\ i = Len(results)
             /\ summary.stopped_reason = "converged"
             /\ round_num = results[i].round_num
             /\ Len(invoked) = Len(results)
             /\ Last(invoked) = round_num
             /\ pc \in {"end", "done", "crashed"}

C6_Witness ==
    /\ pc = "done"
    /\ summary.stopped_reason = "converged"
    /\ Last(results).convergence_pct = Some(config.convergence_target)
    /\ round_num < end - 1

\* C7: converged needs a successful metrics refresh and a known score >= the
\* target; an unknown score is never compared and the loop advances to the
\* next round whatever the target is.
C7_UnknownScoreAdvances ==
    /\ summary.stopped_reason = "converged"
          => /\ results # <<>>
             /\ Last(results).success
             /\ Last(results).convergence_pct # None
             /\ Last(results).convergence_pct[1] >= config.convergence_target
             /\ loc.backfill_ok
    /\ (pc \in {"integrate", "commit", "record"} /\ ~loc.backfill_ok)
          => loc.conv_pct = None
    /\ \A i \in 1..Len(results) :
          (results[i].success /\ results[i].convergence_pct = None)
             => IF i = Len(results)
                THEN /\ round_num = results[i].round_num + 1
                     /\ summary.stopped_reason # "converged"
                ELSE results[i + 1].round_num = results[i].round_num + 1

C7_Witness ==
    /\ config.convergence_target <= 0
    /\ pc = "done"
    /\ summary.stopped_reason = "max_rounds_reached"
    /\ Last(results).success
    /\ Last(results).convergence_pct = None

\* C8: the stop reason is set once and never overwritten, setting it ends the
\* loop at once, and a finished run carries one of the seven stop reasons.
C8_StopReasonSetOnce ==
    /\ [](summary.stopped_reason # NoReason => pc \in {"end", "done", "exited", "crashed"})
    /\ [](pc \in {"done", "exited"} => summary.stopped_reason \in StopReasons)
    /\ [][(summary.stopped_reason # NoReason /\ run' = run)
             => summary'.stopped_reason = summary.stopped_reason]_vars

C8_Witness ==
    /\ pc = "done"
    /\ summary.stopped_reason = "shutdown"
    /\ results # <<>>

\* C9: once in the loop, a run whose external calls all return ends with a
\* stop reason set (a call that raises instead of returning ends the
\* process).
C9_LoopTerminates ==
    (pc = "top") ~>
        (pc = "crashed" \/ (pc = "done" /\ summary.stopped_reason \in StopReasons))

C9_Witness ==
    /\ pc = "done"
    /\ Len(results) = 3 * MaxRoundsCap
    /\ summary.stopped_reason \in StopReasons

\* C10: after a stop on a round that was never accepted, a restart with the
\* start round auto-detected attempts that round first, and it never starts
\* at or below a round accepted before.
C10_ResumeAtUnacceptedRound ==
    (run > 1 /\ start > 0 /\ config.start_round = None)
       => /\ prev.reason \in {"truncated_output", "consecutive_failures", "shutdown"}
                => start = prev.round
          /\ \A r \in prev.accepted : r < start

\* C11: at every point of every atomic_write_json call (callers killed in the
\* middle, several callers at once) the target path is absent or holds the
\* complete payload of a call that has been made, never a partial document.
C11_TargetAbsentOrComplete ==
    \/ dir[path] = None
    \/ \E w \in Writers : \E k \in 1..calls[w] : dir[path] = Some(Payload(w, k))

C11_Witness ==
    \E w, v \in Writers :
       /\ w # v
       /\ wpc[w] = "killed"
       /\ dir[tmp_path(w)] # None
       /\ Len(dir[tmp_path(w)][1]) \in 1..(PayloadChunks - 1)
       /\ wpc[v] = "dump"
       /\ dir[tmp_path(v)] # None
       /\ Len(dir[tmp_path(v)][1]) \in 1..(PayloadChunks - 1)
       /\ dir[path] = Some(Payload(v, 1))

\* C12 (as claimed): no filesystem error at any step of the persistence of a
\* status or summary file propagates out of atomic_write_json.
C12_ErrorNeverPropagates == \A w \in Writers : wpc[w] # "raised"

\* C13: when the flag is set at the head of an iteration under the cap, that
\* iteration sets stop reason shutdown and invokes nothing; once stopped with
\* shutdown nothing more is invoked; and no step taken elsewhere than at the
\* head of an iteration turns the flag into a stop.
C13_ShutdownAtLoopTop ==
    /\ [][(pc = "top" /\ round_num < end /\ shutting_down)
             => /\ summary'.stopped_reason = "shutdown"
                /\ pc' = "end"
                /\ invoked' = invoked]_vars
    /\ [][summary.stopped_reason = "shutdown"
             => /\ invoked' = invoked
                /\ pc' \in {"end", "done", "crashed"}]_vars
    /\ [][pc # "top"
             => (summary'.stopped_reason = "shutdown"
                    => summary.stopped_reason = "shutdown")]_vars

C13_Witness ==
    /\ pc = "done"
    /\ summary.stopped_reason = "shutdown"
    /\ results # <<>>
    /\ Last(results).success
    /\ round_num < end
    /\ Len(invoked) = Len(results)

\* positions of run() at which a subprocess call is in flight, or a sleep
InFlight == {"prefill", "exec", "recover", "backfill", "score", "integrate", "commit"}

Sleeping == {"backoff", "cooldown"}

\* C14 (as claimed): with the flag set while a subprocess call is in flight,
\* the return of that call is not followed by another subprocess call or sleep.
C14_RecheckedAfterCall ==
    [][(shutting_down /\ pc \in InFlight /\ pc' # pc)
          => pc' \notin (InFlight \cup Sleeping)]_vars

\* C14 (amended): the return of a call that was in flight when the flag was set
\* does not sample the flag (the rest of the iteration runs, sleeps included);
\* the flag is sampled at the head of the next iteration, so no executor
\* invocation is started once the flag is set.
C14_RecheckedAtNextLoopTop ==
    /\ [][(shutting_down /\ pc \in InFlight)
             => summary'.stopped_reason # "shutdown"]_vars
    /\ [][shutting_down => invoked' = invoked]_vars

C14_Witness ==
    /\ shutting_down
    /\ pc = "cooldown"

\* the artifact at the path of round r is content the detector judged truncated
JudgedTruncatedAtPath(r) ==
    /\ r = round_num
    /\ files[r].exists
    /\ \/ pc = "recover"
       \/ /\ pc = "exec"
          /\ results # <<>>
          /\ IsTruncFailure(Last(results))
          /\ Last(results).round_num = r

\* C15 (as claimed): whenever content judged truncated is replaced at its
\* round's artifact path, that content is held under an archive name.
C15_TruncatedContentArchived ==
    [][\A r \in Rounds :
          (JudgedTruncatedAtPath(r) /\ files'[r] # files[r])
             => \E k \in 1..MAX_TRUNCATION_RETRIES : backups'[<<r, k>>] = files[r]]_vars

Occurrences(seq, x) == Cardinality({i \in 1..Len(seq) : seq[i] = x})

\* C16: the executor is invoked only for rounds in start .. start+max_rounds-1,
\* at most max_rounds rounds are accepted, and a finished run has stop reason
\* max_rounds_reached exactly when the round number has reached start+max_rounds.
C16_MaxRoundsCap ==
    /\ \A i \in 1..Len(invoked) :
          invoked[i] >= start /\ invoked[i] < start + config.max_rounds
    /\ summary.rounds_completed <= config.max_rounds
    /\ Cardinality(SuccessRounds(results)) <= config.max_rounds
    /\ round_num <= start + config.max_rounds
    /\ pc = "done"
          => (summary.stopped_reason = "max_rounds_reached"
                 <=> round_num = start + config.max_rounds)

C16_Witness ==
    /\ pc = "done"
    /\ summary.stopped_reason = "max_rounds_reached"
    /\ config.max_rounds = MaxRoundsCap
    /\ summary.rounds_completed = MaxRoundsCap
    /\ Last(invoked) = start + config.max_rounds - 1

\* C17: in one run the executor is invoked at most 3 times for any round
\* number, and no truncation-attempt counter exceeds 3.
C17_AtMostThreeAttempts ==
    \A r \in Rounds :
       /\ Occurrences(invoked, r) <= MAX_TRUNCATION_RETRIES
       /\ truncation_attempts[r] <= MAX_TRUNCATION_RETRIES

C17_Witness ==
    /\ Occurrences(invoked, round_num) = MAX_TRUNCATION_RETRIES
    /\ Len(results) >= 2
    /\ IsTruncFailure(Last(results))
    /\ IsExecFailure(results[Len(results) - 1])
    /\ Last(results).round_num = round_num
    /\ results[Len(results) - 1].round_num = round_num
    /\ pc = "backfill"
    /\ loc.recovered

\* character counts of the artifacts the detector accepts on their own
AcceptableSizes ==
    {c.chars : c \in {f \in {Good, Short, Empty, Huge, RecTrunc} :
                         ~check_output_truncation(f, <<>>)}}

\* C18 (as claimed): every entry of the rolling size history is the character
\* count of an artifact the detector accepts.
C18_SizesFromAcceptedArtifacts ==
    \A i \in 1..Len(output_sizes) : output_sizes[i] \in AcceptableSizes

\* C19: in the results of a run no round number has two success results; the
\* completed count is the number of success results (one ahead of it while
\* the accepted round is being recorded, or if the process died while
\* recording it), so no failed attempt adds to it.
C19_OneSuccessPerRound ==
    LET succ == {i \in 1..Len(results) : results[i].success}
    IN /\ \A i, j \in succ : results[i].round_num = results[j].round_num => i = j
       /\ IF pc \in {"backfill", "score", "integrate", "commit", "record"}
          THEN summary.rounds_completed = Cardinality(succ) + 1
          ELSE IF pc = "crashed"
          THEN summary.rounds_completed \in {Cardinality(succ), Cardinality(succ) + 1}
          ELSE summary.rounds_completed = Cardinality(succ)

C19_Witness ==
    /\ Len(results) = 3
    /\ results[1].success
    /\ ~results[2].success
    /\ results[3].success
    /\ summary.rounds_completed = 2

\* C20: a success result has no error message and is not marked truncated; a
\* result with an error message is a failure, and the failed count is the
\* number of failure results.
C20_SuccessHasNoError ==
    /\ \A i \in 1..Len(results) :
          /\ results[i].success
                => results[i].error_msg = "None" /\ ~results[i].truncated
          /\ results[i].error_msg # "None" => ~results[i].success
    /\ summary.rounds_failed =
          Cardinality({i \in 1..Len(results) : ~results[i].success})

C20_Witness ==
    /\ pc = "done"
    /\ Len(results) = 3
    /\ IsTruncFailure(results[1])
    /\ IsExecFailure(results[2])
    /\ results[3].success
    /\ results[3].round_num = results[1].round_num

\* the result of the single call of function f, once it has returned
Called(f) == fn = f /\ ret # None

\* C21 (as claimed): the score returned by the convergence oracle client is
\* None or a percentage within 0..100 (here 0..10000 hundredths of a percent),
\* for every numeric raw value, negative ones included.
C21_ScoreIsNoneOrPercentage ==
    (Called("_extract_stability_score") \/ Called("read_stability_score"))
       => \/ ret[1].raised
          \/ ret[1].value = None
          \/ ret[1].value[1] \in 0..10000

\* C22 (as claimed): read_stability_score returns None or a number and never
\* raises, whatever the collaborator answers (timeout, spawn error, non-zero
\* exit, empty output, text that is not JSON, JSON of any shape).
C22_ReadScoreNeverRaises ==
    Called("read_stability_score") => ~ret[1].raised

\* C23 (as claimed): every outcome of the one invocation run_apr_round makes
\* comes back as a (success, error_msg) value; nothing is raised out of the
\* executor into the loop.
C23_ExecutorNeverRaisesIntoLoop == [][pc = "exec" => pc' # "crashed"]_vars

\* the fixed classification table of the specification
Category(rc) ==
    CASE rc = 2 -> "Usage error"
      [] rc = 3 -> "Dependency error (Oracle not found)"
      [] rc = 4 -> "Config error (missing files or workflow)"
      [] rc = 10 -> "Network error"
      [] OTHER -> "Exit code " \o ToString(rc)

\* C24: for an external tool that exits, exit code 0 is the only success and
\* has an empty message; a non-zero code is a failure whose message is the
\* category of the table (2 usage, 3 dependency, 4 config, 10 network, any
\* other code the fallback naming the code), followed by the last stderr
\* line when there is one.
C24_ExitCodeTable ==
    (Called("run_apr_round") /\ arg.kind = "exit")
       => /\ ~ret[1].raised
          /\ ret[1].success <=> arg.rc = 0
          /\ arg.rc = 0 => ret[1].error_msg = ""
          /\ arg.rc # 0 =>
                ret[1].error_msg =
                   IF arg.stderr = "" THEN Category(arg.rc)
                   ELSE Category(arg.rc) \o " - " \o arg.stderr

C24_Witness ==
    /\ Called("run_apr_round")
    /\ arg.kind = "exit"
    /\ arg.rc = 3
    /\ ~ret[1].success
    /\ ret[1].error_msg = "Dependency error (Oracle not found)"

\* what the specification says the recovery provider returns for a call
ProviderContract ==
    \A c \in RecoveryCalls :
       LET got == attempt_cdp_recovery(c.cfg, c.resp)
           off == ~c.cfg.cdp_recovery_enabled \/ ~c.cfg.cdp_configured
           failed == \/ c.resp.kind \in {"timeout", "oserror"}
                     \/ c.resp.rc # 0
                     \/ c.resp.stdout.chars < 200
       IN IF off THEN ~cdp_invokes(c.cfg) /\ got = None
          ELSE /\ cdp_invokes(c.cfg)
               /\ got = IF failed THEN None ELSE Some(c.resp.stdout)

\* C25: the recovery provider returns None without a remote invocation when
\* the toggle is off or host/script is absent; otherwise it returns None on
\* timeout, spawn error, non-zero exit or fewer than 200 characters and the
\* recovered text otherwise.  The orchestrator starts it only from the
\* verification of an attempt it has just judged truncated (the executor
\* having succeeded), once for that attempt, and an attempt accepted after
\* recovery holds at least 200 recovered characters.
C25_RecoveryDiscipline ==
    [][ /\ ProviderContract
        /\ pc = "recover"
              => /\ loc.truncated
                 /\ cdp_invokes(config)
                 /\ Len(invoked) = Len(results) + 1
                 /\ Last(invoked) = round_num
                 /\ loc.attempts = truncation_attempts[round_num]
        /\ (pc' = "recover" /\ pc # "recover")
              => /\ pc = "verify"
                 /\ truncation_attempts'[round_num] = truncation_attempts[round_num] + 1
        /\ (pc = "recover" /\ pc' = "recover")
              => UNCHANGED <<loc, summary, files, truncation_attempts>>
        /\ (pc = "recover" /\ pc' = "backfill")
              => /\ loc'.recovered
                 /\ files'[round_num].chars >= 200 ]_vars

C25_Witness ==
    /\ pc = "backfill"
    /\ loc.recovered
    /\ truncation_attempts[round_num] = 1
    /\ files[round_num] = Good

\* the highest round number whose round_N.md exists with a non-zero size
HighestNonEmpty(fs) == Max({0} \cup {n \in Rounds : fs[n].exists /\ fs[n].bytes > 0})

\* C26: when run() fixes its start round, it is the manual start round if one
\* is given, and otherwise 1 + the highest round number whose artifact file
\* exists with non-zero size (1 if there is none), whatever zero-size
\* artifacts and archived truncated files the directory holds; the first
\* round the run attempts is that start round.
C26_ResumePoint ==
    [][ /\ (pc = "detect" /\ pc' # "detect")
           => start' = IF config.start_round # None THEN config.start_round[1]
                       ELSE 1 + HighestNonEmpty(files)
        /\ invoked' # <<>> => invoked'[1] = start' ]_vars

C26_Witness ==
    /\ config.start_round = None
    /\ files[2] = Empty
    /\ backups[<<3, 1>>].exists
    /\ backups[<<3, 1>>].bytes > 0
    /\ start = 2
    /\ invoked = <<2>>

\* C27 (as claimed): with --dry-run the orchestrator invokes no collaborator
\* (executor, metrics refresh, score, recovery, integration, commit) and
\* writes no status or summary file, for every start round.
C27_DryRunInvokesNothing ==
    config.dry_run
       => /\ pc \in {"start", "detect", "returned"}
          /\ invoked = <<>>
          /\ statusFile = None
          /\ summaryFile = None

\* C28 (as claimed): a process that ends with a stop reason set has a non-zero
\* exit code if and only if that stop reason is preflight_failed.
C28_ExitCodeOnlyPreflight ==
    (exit_code # None /\ summary.stopped_reason \in StopReasons)
       => (exit_code # Some(0) <=> summary.stopped_reason = "preflight_failed")

\* C29: an artifact that is missing or unreadable, or whose text has fewer
\* than 200 characters or fewer than 5 newlines, is judged truncated whatever
\* its tail and whatever the size history.
C29_BelowFloorIsTruncated ==
    ( /\ Called("check_output_truncation")
      /\ \/ ~arg.f.exists
         \/ ~arg.f.readable
         \/ arg.f.chars < 200
         \/ arg.f.lines < 5 )
       => ret[1] = TRUE

C29_Witness ==
    /\ Called("check_output_truncation")
    /\ arg.f.exists /\ arg.f.readable
    /\ arg.f.chars = 1200
    /\ arg.f.lines = 4
    /\ arg.f.tail = "vowel"
    /\ arg.sizes = <<>>
    /\ ret[1] = TRUE

\* the number of fence characters the token ends in
RECURSIVE TrailingFences(_)
TrailingFences(s) ==
    IF s = <<>> \/ s[Len(s)] # BACKTICK THEN 0
    ELSE 1 + TrailingFences(SubSeq(s, 1, Len(s) - 1))

\* rule 4 of the specification: the content ends with exactly two fence
\* characters
EndsInTwoFences(last) == TrailingFences(last) = 2

\* rule 5: the final token is longer than 3, ends in a letter and contains no
\* vowel-class character (a, e, i, o, u, y in either case)
VowelClass == {"a", "e", "i", "o", "u", "y", "A", "E", "I", "O", "U", "Y"}
Letters ==
    {"a", "c", "d", "e", "f", "h", "i", "l", "m", "n", "o", "p", "r", "s", "t",
     "x", "y", "H", "I", "L", "M", "P", "T", "X"}
VowelFreeToken(last) ==
    /\ Len(last) > 3
    /\ last[Len(last)] \in Letters
    /\ \A i \in 1..Len(last) : last[i] \notin VowelClass

\* every check of the detector other than the relative-size one passes
OtherChecksPass(f) ==
    /\ f.exists /\ f.readable
    /\ f.chars >= 200 /\ f.lines >= 5
    /\ ~EndsInTwoFences(Ending(f.tail).last)
    /\ ~VowelFreeToken(Ending(f.tail).last)
    /\ ~(Ending(f.tail).line = "#" /\ f.chars < 1000)

\* C30: on a call of the detector, a text whose character count is below 30%
\* of the mean of a non-empty history is judged truncated even if every other
\* check passes; with an empty history a text that passes the other checks
\* is not judged truncated; the history is left as it was given.
C30_RelativeSizeRule ==
    [][ (fn = "check_output_truncation" /\ ret = None /\ ret' # None)
          => /\ arg'.sizes = arg.sizes
             /\ ( /\ arg.f.exists /\ arg.f.readable
                  /\ arg.sizes # <<>>
                  /\ 10 * arg.f.chars * Len(arg.sizes) < 3 * Sum(arg.sizes) )
                   => ret'[1] = TRUE
             /\ (arg.sizes = <<>> /\ OtherChecksPass(arg.f))
                   => ret'[1] = FALSE ]_vars

C30_Witness ==
    /\ Called("check_output_truncation")
    /\ OtherChecksPass(arg.f)
    /\ arg.f.chars = 300
    /\ arg.sizes = <<1000, 1000, 1001>>
    /\ ret[1] = TRUE

SampleCalled ==
    /\ Called("check_output_truncation")
    /\ arg.f = read_text(SampleArtifact, "sentence")
    /\ arg.sizes = <<>>

\* C32 (as claimed): the sample artifact, judged with an empty size history,
\* is classified as not truncated.
C32_SampleNotTruncated == SampleCalled => ret[1] = FALSE

\* C32 (amended): the sample artifact has 111 characters and 2 newlines, both
\* below the floors, and is classified as truncated.
C32_SampleIsTruncated ==
    SampleCalled => /\ arg.f.chars = 111
                    /\ arg.f.lines = 2
                    /\ ret[1] = TRUE

C32_Witness == SampleCalled /\ ret[1] = TRUE

\* the per-iteration locals without the two flags the collaborators set
WithoutFlags(l) == [l EXCEPT !.integrated = FALSE, !.committed = FALSE]

FinalStatus ==
    Some([current_round |-> round_num, rounds_completed |-> summary.rounds_completed,
          status |-> summary.stopped_reason])

C35_TruncationCapFirst ==
    [][ (Len(results') = Len(results) + 1 /\ IsTruncFailure(Last(results')))
          => LET att == truncation_attempts'[round_num]
                 reason == summary'.stopped_reason
             IN /\ att >= 3 => reason = "truncated_output"
                /\ (att < 3 /\ consecutive_failures' >= 3)
                      => reason = "consecutive_failures"
                /\ (att < 3 /\ consecutive_failures' < 3) => reason = NoReason ]_vars

C35_Witness ==
    /\ pc = "done"
    /\ summary.stopped_reason = "truncated_output"
    /\ consecutive_failures = 3
    /\ truncation_attempts[round_num] = 3
    /\ Len(results) = 3

\* the process is between two iterations of the loop or has left the loop
AtBoundary == pc \in {"top", "backoff", "cooldown", "end", "done"}

\* C36: at every iteration boundary and after the loop, rounds_completed +
\* rounds_failed is the number of executor invocations of the run and the
\* number of results; the i-th invocation has the i-th result, for the same
\* round, counted as completed if it is a success and as failed otherwise.
C36_OneResultPerInvocation ==
    AtBoundary
       => /\ summary.rounds_completed + summary.rounds_failed = Len(invoked)
          /\ Len(results) = Len(invoked)
          /\ \A i \in 1..Len(results) : results[i].round_num = invoked[i]
          /\ summary.rounds_completed
                = Cardinality({i \in 1..Len(results) : results[i].success})
          /\ summary.rounds_failed
                = Cardinality({i \in 1..Len(results) : ~results[i].success})

C36_Witness ==
    /\ pc = "top"
    /\ Len(invoked) = 3
    /\ summary.rounds_completed = 1
    /\ summary.rounds_failed = 2
    /\ results[3].success

\* the stop reasons a run sets on a path through the loop or at its exit
ProducedReasons ==
    {"shutdown", "consecutive_failures", "truncated_output", "converged",
     "max_rounds_reached"}

\* C37: no run has the stop reason completed, in memory or in the saved
\* summary, and a run that passed preflight, was no dry run and reached the
\* end of run() has one of shutdown, consecutive_failures, truncated_output,
\* converged, max_rounds_reached, whatever the cap (zero and negative
\* included) and whatever the outcomes of its rounds.
C37_CompletedNeverProduced ==
    /\ summary.stopped_reason # "completed"
    /\ summaryFile # None => summaryFile[1].stopped_reason # "completed"
    /\ pc = "done" => summary.stopped_reason \in ProducedReasons

C37_Witness ==
    /\ pc = "done"
    /\ config.max_rounds < 0
    /\ invoked = <<>>
    /\ summary.stopped_reason = "max_rounds_reached"

====
